---------------------------- MODULE Spec2Model ----------------------------
(***************************************************************************)
(* Content flagging engine: pattern catalog (patterns.ts), analysis and    *)
(* scoring (content-flagging.ts), HTTP endpoints (server.ts).              *)
(*                                                                         *)
(* Specifications.  Spec: one call of analyzeContent.  SpecProcess: calls  *)
(* of processContentFlaggingRequest while the clock advances.  SpecHttp:   *)
(* one request to POST /api/flag-content or POST /api/flag-content/batch.  *)
(* SpecConcurrent: two calls of analyzeContent interleaved.  Each          *)
(* specification keeps the variables of the others at fixed values.        *)
(*                                                                         *)
(* Numbers.  Confidence values are held in hundredths (0.2 is 20, 0.05 is  *)
(* 5).  Every constant of the scoring code is a multiple of 0.05 and the   *)
(* IEEE results of the sums the code forms differ from the exact decimal   *)
(* value by less than 1e-15, which never crosses one of the comparisons    *)
(* (> 0.8, > 0.3, min with 1.0, max with 0.4) the code makes.              *)
(*                                                                         *)
(* Strings.  A string is a sequence of tokens, the string being the plain  *)
(* concatenation of its tokens.  A token is one whitespace character (WS)  *)
(* or a fixed phrase of the vocabulary; TokenLen gives the phrase's        *)
(* length and TokenMatches the rules whose regular expression finds an     *)
(* occurrence inside the phrase.  Input strings keep phrases separated by  *)
(* whitespace, and no regular expression of the catalog matches across the *)
(* whitespace between two phrases of the vocabulary.                       *)
(***************************************************************************)
EXTENDS Integers, Sequences, FiniteSets, TLC

VARIABLES
  request, result, pc,    \* one call of analyzeContent: argument, return value, position
  underContext,           \* the return values for one content under every context
  now, responses,         \* Date.now(); the responses processContentFlaggingRequest returned
  body, reply, analysed,  \* one HTTP request: req.body, the answer, the requests handed to the core
  calls, catalog          \* concurrent calls of analyzeContent; the PATTERN_MAP object

vars == <<request, result, pc, underContext, now, responses, body, reply, analysed, calls, catalog>>

analysisVars == <<request, result, pc, underContext>>

processVars == <<now, responses>>

httpVars == <<body, reply, analysed>>

concurrentVars == <<calls, catalog>>

-----------------------------------------------------------------------------
(* Bounds *)

\* longest text of a content item, in phrases
MaxWords == 2

\* calls of processContentFlaggingRequest followed
MaxCalls == 2

\* milliseconds of Date.now() followed
MaxClock == 2

\* longest batch built item by item
MaxBatchLen == 2

-----------------------------------------------------------------------------
(* Small helpers *)

Min(a, b) == IF a < b THEN a ELSE b

Max(a, b) == IF a > b THEN a ELSE b

\* marks an optional number field that is not set (undefined)
Absent == -1

\* marks an optional string field that is not set (undefined)
None == "undefined"

-----------------------------------------------------------------------------
(* patterns.ts: the rules *)

SPAM_PATTERNS ==
  << "sp_click_here", "sp_free_money", "sp_make_money_fast",
     "sp_guaranteed_profit", "sp_limited_time_offer", "sp_act_now",
     "sp_no_risk", "sp_get_rich_quick", "sp_work_from_home", "sp_earn",
     "sp_repetition", "sp_excessive_caps",
     "sp_bitly", "sp_tinyurl", "sp_shortlink" >>

HATE_SPEECH_SLURS == << "hs_slurs" >>

HATE_SPEECH_PATTERNS == HATE_SPEECH_SLURS \o << "hs_all_are", "hs_people_are" >>

HARASSMENT_PATTERNS ==
  << "ha_i_will", "ha_you_should", "ha_kill_yourself", "ha_die",
     "ha_watch_your_back", "ha_youre_dead", "ha_i_know_where" >>

VIOLENCE_PATTERNS ==
  << "vi_kill", "vi_murder", "vi_beat", "vi_punch", "vi_weapons" >>

ADULT_CONTENT_PATTERNS == << "ad_explicit", "ad_adult_content" >>

MISINFORMATION_PATTERNS ==
  << "mi_conspiracy", "mi_government_cover", "mi_fake_news",
     "mi_cure_for", "mi_miracle_drug", "mi_doctors" >>

PHISHING_PATTERNS ==
  << "ph_urgent", "ph_verify", "ph_suspended", "ph_click_to_verify",
     "ph_password", "ph_confirm", "ph_update" >>

PERSONAL_INFO_PATTERNS == << "pi_ssn", "pi_phone", "pi_email", "pi_credit_card" >>

\* the keys of PATTERN_MAP in the order Object.entries yields them
FlagReasons ==
  << "spam", "hate_speech", "harassment", "violence", "adult_content",
     "misinformation", "phishing", "copyright_violation", "malware",
     "inappropriate_language", "personal_information" >>

PATTERN_MAP ==
  [ spam                   |-> SPAM_PATTERNS,
    hate_speech            |-> HATE_SPEECH_PATTERNS,
    harassment             |-> HARASSMENT_PATTERNS,
    violence               |-> VIOLENCE_PATTERNS,
    adult_content          |-> ADULT_CONTENT_PATTERNS,
    misinformation         |-> MISINFORMATION_PATTERNS,
    phishing               |-> PHISHING_PATTERNS,
    copyright_violation    |-> << >>,
    malware                |-> << >>,
    inappropriate_language |-> HATE_SPEECH_SLURS,
    personal_information   |-> PERSONAL_INFO_PATTERNS ]

-----------------------------------------------------------------------------
(* Strings *)

\* one whitespace character
WS == " "

\* the phrases input strings are built from:
\*   name of the token  |->  length of the phrase, rules that match in it
TokenTable ==
  [ \* "free money act now no risk get rich quick"
    spam4         |-> [len |-> 41,  rules |-> {"sp_free_money", "sp_act_now",
                                               "sp_no_risk", "sp_get_rich_quick"}],
    \* "https://bit.ly/x"
    bitly         |-> [len |-> 16,  rules |-> {"sp_bitly"}],
    \* "all people are stupid"
    all_people    |-> [len |-> 21,  rules |-> {"hs_slurs", "hs_all_are",
                                               "hs_people_are"}],
    \* "you should kill yourself"
    kill_yourself |-> [len |-> 24,  rules |-> {"ha_you_should", "ha_kill_yourself"}],
    \* "die watch your back"
    die_watch     |-> [len |-> 19,  rules |-> {"ha_die", "ha_watch_your_back"}],
    \* "i will kill you with my gun"
    kill_you_gun  |-> [len |-> 27,  rules |-> {"ha_i_will", "vi_kill", "vi_weapons"}],
    \* "123-45-6789"
    ssn           |-> [len |-> 11,  rules |-> {"pi_ssn"}],
    \* "123-45-6789 555-123-4567 a@b.co 1234567812345678"
    pi4           |-> [len |-> 48,  rules |-> {"pi_ssn", "pi_phone", "pi_email",
                                               "pi_credit_card"}],
    porn          |-> [len |-> 4,   rules |-> {"ad_explicit"}],
    \* "conspiracy government cover miracle drug fake news"
    misinfo4      |-> [len |-> 50,  rules |-> {"mi_conspiracy", "mi_government_cover",
                                               "mi_miracle_drug", "mi_fake_news"}],
    \* "urgent action required suspended account click to verify your account"
    phish4        |-> [len |-> 69,  rules |-> {"ph_urgent", "ph_suspended",
                                               "ph_click_to_verify", "ph_verify"}],
    \* 95 and 995 characters of text no rule matches
    fill95        |-> [len |-> 95,  rules |-> {}],
    fill995       |-> [len |-> 995, rules |-> {}] ]

Phrases == DOMAIN TokenTable

\* the phrases that occur in the text of a content item
TextPhrases == Phrases \ {"bitly"}

\* String.prototype.length of one token
TokenLen(t) == IF t = WS THEN 1 ELSE TokenTable[t].len

\* the rules whose regular expression occurs in one token
TokenMatches(t) == IF t = WS THEN {} ELSE TokenTable[t].rules

\* String.prototype.length
RECURSIVE StrLen(_)
StrLen(s) == IF s = << >> THEN 0 ELSE TokenLen(Head(s)) + StrLen(Tail(s))

\* String.prototype.trim: leading and trailing whitespace removed
RECURSIVE TrimStart(_)
TrimStart(s) ==
  IF s # << >> /\ Head(s) = WS THEN TrimStart(Tail(s)) ELSE s

RECURSIVE TrimEnd(_)
TrimEnd(s) ==
  IF s # << >> /\ s[Len(s)] = WS THEN TrimEnd(SubSeq(s, 1, Len(s) - 1)) ELSE s

Trim(s) == TrimEnd(TrimStart(s))

\* the patterns for which text.match(pattern) is not null
Occurring(text) == UNION { TokenMatches(text[i]) : i \in 1..Len(text) }

\* the words of ws, one whitespace character between two words
RECURSIVE Join(_)
Join(ws) ==
  IF ws = << >> THEN << >>
  ELSE IF Len(ws) = 1 THEN ws
  ELSE << Head(ws), WS >> \o Join(Tail(ws))

-----------------------------------------------------------------------------
(* content-flagging.ts: helpers *)

Scale == 100

SeverityLevels == {"low", "medium", "high", "critical"}

createCleanResult ==
  [ isFlagged  |-> FALSE,
    severity   |-> "low",
    reasons    |-> << >>,
    confidence |-> 0,
    details    |-> [kind |-> None, reasons |-> << >>, percent |-> 0] ]

\* findPatternMatches with the loop starting at the second pattern
findPatternMatches_skipFirst(text, patterns) ==
  LET occurring == Occurring(text)
  IN  SelectSeq(IF patterns = << >> THEN << >> ELSE Tail(patterns),
                LAMBDA pattern : pattern \in occurring)

\* the patterns that match text, in the order of patterns
findPatternMatches(text, patterns) ==
  LET occurring == Occurring(text)
  IN  SelectSeq(patterns, LAMBDA pattern : pattern \in occurring)

findPersonalInfoPatterns(text) ==
  findPatternMatches(text, << "pi_ssn", "pi_phone", "pi_email", "pi_credit_card" >>)

\* RepeatOffender with >= 3 for > 3
RepeatOffender_ge3(context) ==
  /\ context.previousFlags # Absent
  /\ context.previousFlags # 0
  /\ context.previousFlags >= 3

\* context?.previousFlags && context.previousFlags > 3
RepeatOffender(context) ==
  /\ context.previousFlags # Absent
  /\ context.previousFlags # 0
  /\ context.previousFlags > 3

\* calculateConfidence with <= 100 for < 100
calculateConfidence_upTo100(matches, text, context) ==
  IF Len(matches) = 0 THEN 0
  ELSE
    LET base       == Min(Len(matches) * 20, 80)
        textLength == StrLen(text)
        byLength   == IF textLength <= 100 THEN base + 20
                      ELSE IF textLength > 1000 THEN base - 10
                      ELSE base
        byContext  == IF RepeatOffender(context) THEN byLength + 10 ELSE byLength
    IN  Min(byContext, Scale)

calculateConfidence(matches, text, context) ==
  IF Len(matches) = 0 THEN 0
  ELSE
    LET base       == Min(Len(matches) * 20, 80)
        textLength == StrLen(text)
        byLength   == IF textLength < 100 THEN base + 20
                      ELSE IF textLength > 1000 THEN base - 10
                      ELSE base
        byContext  == IF RepeatOffender(context) THEN byLength + 10 ELSE byLength
    IN  Min(byContext, Scale)

severityMap ==
  [ spam                   |-> "low",
    hate_speech            |-> "high",
    harassment             |-> "high",
    violence               |-> "critical",
    adult_content          |-> "medium",
    misinformation         |-> "medium",
    copyright_violation    |-> "medium",
    phishing               |-> "high",
    malware                |-> "critical",
    inappropriate_language |-> "low",
    personal_information   |-> "high" ]

\* getSeverityForReason with >= 0.8 for > 0.8
getSeverityForReason_from80(reason, confidence) ==
  LET baseSeverity == severityMap[reason]
  IN  IF reason = "harassment" THEN "high"
      ELSE IF confidence >= 80 /\ baseSeverity = "low" THEN "medium"
      ELSE IF confidence >= 80 /\ baseSeverity = "medium" THEN "high"
      ELSE IF confidence >= 80 /\ baseSeverity = "high" THEN "critical"
      ELSE baseSeverity

\* getSeverityForReason raising medium to critical
getSeverityForReason_mediumToCritical(reason, confidence) ==
  LET baseSeverity == severityMap[reason]
  IN  IF reason = "harassment" THEN "high"
      ELSE IF confidence > 80 /\ baseSeverity = "low" THEN "medium"
      ELSE IF confidence > 80 /\ baseSeverity = "medium" THEN "critical"
      ELSE IF confidence > 80 /\ baseSeverity = "high" THEN "critical"
      ELSE baseSeverity

\* getSeverityForReason without the harassment exception
getSeverityForReason_noCarveOut(reason, confidence) ==
  LET baseSeverity == severityMap[reason]
  IN  IF confidence > 80 /\ baseSeverity = "low" THEN "medium"
      ELSE IF confidence > 80 /\ baseSeverity = "medium" THEN "high"
      ELSE IF confidence > 80 /\ baseSeverity = "high" THEN "critical"
      ELSE baseSeverity

getSeverityForReason(reason, confidence) ==
  LET baseSeverity == severityMap[reason]
  IN  IF reason = "harassment" THEN "high"
      ELSE IF confidence > 80 /\ baseSeverity = "low" THEN "medium"
      ELSE IF confidence > 80 /\ baseSeverity = "medium" THEN "high"
      ELSE IF confidence > 80 /\ baseSeverity = "high" THEN "critical"
      ELSE baseSeverity

severityOrder == << "low", "medium", "high", "critical" >>

\* severityOrder.indexOf(a)
indexOf(a) == CHOOSE i \in 1..Len(severityOrder) : severityOrder[i] = a

\* getHigherSeverity with the comparison reversed
getHigherSeverity_lower(a, b) == IF indexOf(a) < indexOf(b) THEN a ELSE b

getHigherSeverity(a, b) == IF indexOf(a) > indexOf(b) THEN a ELSE b

\* applyContextAdjustments without the addition for multiple reasons
applyContextAdjustments_noMultiplicity(confidence, reasonCount, context) ==
  LET repeat   == IF RepeatOffender(context)
                    THEN Max(confidence + 20, 40)
                    ELSE confidence
      platform == IF context.platform = "twitter" THEN repeat + 5 ELSE repeat
      audience == IF context.audience = "children" THEN platform + 10 ELSE platform
  IN  Min(audience, Scale)

\* applyContextAdjustments with Math.min for Math.max in the repeat-offender rule
applyContextAdjustments_capRepeat(confidence, reasonCount, context) ==
  LET multiple == IF reasonCount > 1
                    THEN confidence + 10 * (reasonCount - 1)
                    ELSE confidence
      repeat   == IF RepeatOffender(context)
                    THEN Min(multiple + 20, 40)
                    ELSE multiple
      platform == IF context.platform = "twitter" THEN repeat + 5 ELSE repeat
      audience == IF context.audience = "children" THEN platform + 10 ELSE platform
  IN  Min(audience, Scale)

\* applyContextAdjustments with the repeat-offender rule after the platform
\* and audience additions
applyContextAdjustments_floorLast(confidence, reasonCount, context) ==
  LET multiple == IF reasonCount > 1
                    THEN confidence + 10 * (reasonCount - 1)
                    ELSE confidence
      platform == IF context.platform = "twitter" THEN multiple + 5 ELSE multiple
      audience == IF context.audience = "children" THEN platform + 10 ELSE platform
      repeat   == IF RepeatOffender(context)
                    THEN Max(audience + 20, 40)
                    ELSE audience
  IN  Min(repeat, Scale)

\* applyContextAdjustments without the repeat-offender minimum
applyContextAdjustments_noFloor(confidence, reasonCount, context) ==
  LET multiple == IF reasonCount > 1
                    THEN confidence + 10 * (reasonCount - 1)
                    ELSE confidence
      repeat   == IF RepeatOffender(context) THEN multiple + 20 ELSE multiple
      platform == IF context.platform = "twitter" THEN repeat + 5 ELSE repeat
      audience == IF context.audience = "children" THEN platform + 10 ELSE platform
  IN  Min(audience, Scale)

applyContextAdjustments(confidence, reasonCount, context) ==
  LET multiple == IF reasonCount > 1
                    THEN confidence + 10 * (reasonCount - 1)
                    ELSE confidence
      repeat   == IF RepeatOffender(context)
                    THEN Max(multiple + 20, 40)
                    ELSE multiple
      platform == IF context.platform = "twitter" THEN repeat + 5 ELSE repeat
      audience == IF context.audience = "children" THEN platform + 10 ELSE platform
  IN  Min(audience, Scale)

\* Math.round taking the confidence itself for confidence * 100
RoundPercent_ofFraction(confidence) == (confidence + Scale \div 2) \div Scale

\* Math.round(confidence * 100) of a confidence held in 1/Scale
RoundPercent(confidence) == (confidence * 100 + Scale \div 2) \div Scale

\* the details string: kind "clean" is 'Content appears to be clean', kind
\* "detected" is `Detected ${reasons.join(', ')} with ${percent}% confidence`
generateDetails(reasons, confidence) ==
  IF Len(reasons) = 0
    THEN [kind |-> "clean", reasons |-> << >>, percent |-> 0]
    ELSE [kind |-> "detected", reasons |-> reasons, percent |-> RoundPercent(confidence)]

-----------------------------------------------------------------------------
(* content-flagging.ts: analyzeContent *)

\* !content.text, !content.url: undefined and the empty string are falsy
Falsy(has, str) == ~has \/ str = << >>

\* content.text || '', content.url || ''
OrEmpty(has, str) == IF has THEN str ELSE << >>

\* CombinedText leaving the url out
CombinedText_textOnly(content) ==
  Trim(OrEmpty(content.hasText, content.text))

\* `${textToAnalyze} ${urlToAnalyze}`.trim()
CombinedText(content) ==
  Trim(OrEmpty(content.hasText, content.text) \o << WS >>
         \o OrEmpty(content.hasUrl, content.url))

\* the body of the loop for the entry [reason, patterns] of the catalog
CheckEntry(acc, flagReason, patterns, combinedText, context) ==
  LET matches == findPatternMatches(combinedText, patterns)
  IN  IF Len(matches) > 0
        THEN LET confidence == calculateConfidence(matches, combinedText, context)
                 severity   == getSeverityForReason(flagReason, confidence)
             IN  [ detectedReasons |-> Append(acc.detectedReasons, flagReason),
                   totalConfidence |-> acc.totalConfidence + confidence,
                   maxSeverity     |-> getHigherSeverity(acc.maxSeverity, severity) ]
        ELSE acc

\* CheckReason with totalConfidence = confidence for totalConfidence += confidence
CheckReason_overwrite(acc, flagReason, combinedText, context) ==
  LET matches == findPatternMatches(combinedText, PATTERN_MAP[flagReason])
  IN  IF Len(matches) > 0
        THEN LET confidence == calculateConfidence(matches, combinedText, context)
                 severity   == getSeverityForReason(flagReason, confidence)
             IN  [ detectedReasons |-> Append(acc.detectedReasons, flagReason),
                   totalConfidence |-> confidence,
                   maxSeverity     |-> getHigherSeverity(acc.maxSeverity, severity) ]
        ELSE acc

\* one iteration of the loop over Object.entries(PATTERN_MAP)
CheckReason(acc, flagReason, combinedText, context) ==
  CheckEntry(acc, flagReason, PATTERN_MAP[flagReason], combinedText, context)

\* the loop over Object.entries(PATTERN_MAP), from entry i on
RECURSIVE CheckReasons(_, _, _, _)
CheckReasons(acc, i, combinedText, context) ==
  IF i > Len(FlagReasons) THEN acc
  ELSE CheckReasons(CheckReason(acc, FlagReasons[i], combinedText, context),
                    i + 1, combinedText, context)

\* CheckPersonalInfo without totalConfidence += 0.9
CheckPersonalInfo_noScore(acc, combinedText) ==
  IF Len(findPersonalInfoPatterns(combinedText)) > 0
    THEN [ detectedReasons |-> Append(acc.detectedReasons, "personal_information"),
           totalConfidence |-> acc.totalConfidence,
           maxSeverity     |-> getHigherSeverity(acc.maxSeverity, "high") ]
    ELSE acc

\* the check for personal information exposure after the loop
CheckPersonalInfo(acc, combinedText) ==
  IF Len(findPersonalInfoPatterns(combinedText)) > 0
    THEN [ detectedReasons |-> Append(acc.detectedReasons, "personal_information"),
           totalConfidence |-> acc.totalConfidence + 90,
           maxSeverity     |-> getHigherSeverity(acc.maxSeverity, "high") ]
    ELSE acc

\* detectedReasons, totalConfidence and maxSeverity before the loop
StartAcc ==
  [ detectedReasons |-> << >>, totalConfidence |-> 0, maxSeverity |-> "low" ]

\* detectedReasons, totalConfidence and maxSeverity after both checks
Detect(combinedText, context) ==
  CheckPersonalInfo(CheckReasons(StartAcc, 1, combinedText, context), combinedText)

\* the context adjustment and the FlagResult returned
FlagResultOf(acc, context) ==
  LET adjustedConfidence ==
        applyContextAdjustments(acc.totalConfidence,
                                Len(acc.detectedReasons), context)
  IN  [ isFlagged  |-> adjustedConfidence > 30 \/ Len(acc.detectedReasons) > 0,
        severity   |-> acc.maxSeverity,
        reasons    |-> acc.detectedReasons,
        confidence |-> Min(adjustedConfidence, Scale),
        details    |-> generateDetails(acc.detectedReasons, adjustedConfidence) ]

\* analyzeContent returning the clean result for every image
analyzeContent_skipsImages(req) ==
  LET content == req.content
      context == req.context
  IN  IF \/ content.type = "image"
         \/ Falsy(content.hasText, content.text) /\ Falsy(content.hasUrl, content.url)
        THEN createCleanResult
        ELSE FlagResultOf(Detect(CombinedText(content), context), context)

\* analyzeContent with isFlagged = detectedReasons.length > 0
analyzeContent_flagOnReasons(req) ==
  LET content == req.content
      context == req.context
  IN  IF Falsy(content.hasText, content.text) /\ Falsy(content.hasUrl, content.url)
        THEN createCleanResult
        ELSE
          LET acc == Detect(CombinedText(content), context)
              adjustedConfidence ==
                applyContextAdjustments(acc.totalConfidence,
                                        Len(acc.detectedReasons), context)
          IN  [ isFlagged  |-> Len(acc.detectedReasons) > 0,
                severity   |-> acc.maxSeverity,
                reasons    |-> acc.detectedReasons,
                confidence |-> Min(adjustedConfidence, Scale),
                details    |-> generateDetails(acc.detectedReasons, adjustedConfidence) ]

\* analyzeContent returning totalConfidence as the confidence
analyzeContent_rawTotal(req) ==
  LET content == req.content
      context == req.context
  IN  IF Falsy(content.hasText, content.text) /\ Falsy(content.hasUrl, content.url)
        THEN createCleanResult
        ELSE
          LET acc == Detect(CombinedText(content), context)
              adjustedConfidence ==
                applyContextAdjustments(acc.totalConfidence,
                                        Len(acc.detectedReasons), context)
          IN  [ isFlagged  |-> adjustedConfidence > 30 \/ Len(acc.detectedReasons) > 0,
                severity   |-> acc.maxSeverity,
                reasons    |-> acc.detectedReasons,
                confidence |-> acc.totalConfidence,
                details    |-> generateDetails(acc.detectedReasons, adjustedConfidence) ]

analyzeContent(req) ==
  LET content == req.content
      context == req.context
  IN  IF Falsy(content.hasText, content.text) /\ Falsy(content.hasUrl, content.url)
        THEN createCleanResult
        ELSE FlagResultOf(Detect(CombinedText(content), context), context)

-----------------------------------------------------------------------------
(* content-flagging.ts: processContentFlaggingRequest *)

\* nanoseconds in a millisecond: Number(endTime - startTime) / 1000000
NsPerMs == 1000000

\* the minimum 0.001 of processingTimeMs, in nanoseconds
MinProcessingTime == NsPerMs \div 1000

\* characters kept of the random suffix: substr(2, 9)
SuffixLength == 9

\* Math.random().toString(36): a value of Math.random() is given by the
\* digits of its fraction in base 36; 0 prints as "0", any other value as
\* "0." followed by the digits
toString36(random) ==
  IF random = << >> THEN << "0" >> ELSE << "0", "." >> \o random

\* str.substr(start, length), start counted from 0
substr(str, start, length) ==
  SubSeq(str, start + 1, Min(Len(str), start + length))

\* generateRequestId without the Date.now() part
generateRequestId_noClock(clock, random) ==
  << "req", 0, substr(toString36(random), 2, SuffixLength) >>

\* `req_${Date.now()}_${Math.random().toString(36).substr(2, 9)}`: the
\* three parts of the string, which determine it and are determined by it
\* (the middle part holds digits only, the last part no underscore)
generateRequestId(clock, random) ==
  << "req", clock, substr(toString36(random), 2, SuffixLength) >>

\* processContentFlaggingRequest(req) when Date.now() is clock, Math.random()
\* returns random and the two readings of process.hrtime are elapsed
\* nanoseconds apart; processingTimeMs is held in nanoseconds
processContentFlaggingRequest(req, clock, random, elapsed) ==
  [ requestId        |-> generateRequestId(clock, random),
    result           |-> analyzeContent(req),
    processingTimeMs |-> Max(elapsed, MinProcessingTime),
    timestamp        |-> clock ]

-----------------------------------------------------------------------------
(* The requests analysed *)

RECURSIVE SeqsUpTo(_, _)
SeqsUpTo(S, n) ==
  IF n = 0 THEN { << >> }
  ELSE LET shorter == SeqsUpTo(S, n - 1)
       IN  shorter \cup { Append(s, x) : s \in { t \in shorter : Len(t) = n - 1 }, x \in S }

\* content.text: undefined, "", " ", or up to MaxWords phrases
Texts ==
  { [has |-> FALSE, str |-> << >>], [has |-> TRUE, str |-> << WS >>] }
    \cup { [has |-> TRUE, str |-> Join(ws)] : ws \in SeqsUpTo(TextPhrases, MaxWords) }

\* content.url: undefined, " ", or one link
Urls ==
  { [has |-> FALSE, str |-> << >>],
    [has |-> TRUE, str |-> << WS >>], [has |-> TRUE, str |-> << "bitly" >>] }

Contents ==
  { [hasText |-> t.has, text |-> t.str, hasUrl |-> u.has, url |-> u.str] :
      t \in Texts, u \in Urls }

PreviousFlagsValues == {Absent, 0, 3, 4, 5}

Platforms == {None, "twitter", "facebook"}

Audiences == {None, "children"}

\* a request without context reads every field of the context as undefined
Contexts ==
  [ previousFlags : PreviousFlagsValues, platform : Platforms, audience : Audiences ]

NoContext == [previousFlags |-> Absent, platform |-> None, audience |-> None]

Requests == [ content : Contents, context : Contexts ]

-----------------------------------------------------------------------------
(* server.ts: POST /api/flag-content and POST /api/flag-content/batch       *)
(*                                                                          *)
(* An object of the body that is missing is the record [given |-> FALSE];   *)
(* a string field that is missing is None.                                  *)

\* the JSON value null
Null == "null"

\* a string field is truthy: neither undefined nor the empty string
Truthy(v) == v # None /\ v # ""

validTypes == {"text", "image", "video", "link"}

\* most entries of a batch
BatchLimit == 100

\* validateContent with the type checked before the required fields
validateContent_typeBeforeFormat(content) ==
  IF ~content.given THEN "MISSING_CONTENT"
  ELSE IF content.type \notin validTypes THEN "INVALID_CONTENT_TYPE"
  ELSE IF ~Truthy(content.id) \/ ~Truthy(content.userId) \/ ~Truthy(content.type)
    THEN "INVALID_CONTENT_FORMAT"
  ELSE IF Falsy(content.hasText, content.text) /\ Falsy(content.hasUrl, content.url)
    THEN "MISSING_CONTENT_DATA"
  ELSE "OK"

\* the checks of the single endpoint: the code of the 400 answer, or "OK"
validateContent(content) ==
  IF ~content.given THEN "MISSING_CONTENT"
  ELSE IF ~Truthy(content.id) \/ ~Truthy(content.userId) \/ ~Truthy(content.type)
    THEN "INVALID_CONTENT_FORMAT"
  ELSE IF content.type \notin validTypes THEN "INVALID_CONTENT_TYPE"
  ELSE IF Falsy(content.hasText, content.text) /\ Falsy(content.hasUrl, content.url)
    THEN "MISSING_CONTENT_DATA"
  ELSE "OK"

\* the ContentFlaggingRequest built from a body that passed the checks:
\* text and url are copied when truthy, platform and audience when truthy,
\* previousFlags when it is not undefined
flaggingRequest(content, context) ==
  [ content |->
      [ id      |-> content.id,
        userId  |-> content.userId,
        type    |-> content.type,
        hasText |-> ~Falsy(content.hasText, content.text),
        text    |-> OrEmpty(content.hasText, content.text),
        hasUrl  |-> ~Falsy(content.hasUrl, content.url),
        url     |-> OrEmpty(content.hasUrl, content.url) ],
    context |->
      IF ~context.given THEN NoContext
      ELSE [ previousFlags |-> context.previousFlags,
             platform |-> IF Truthy(context.platform) THEN context.platform ELSE None,
             audience |-> IF Truthy(context.audience) THEN context.audience ELSE None ] ]

\* the handler of POST /api/flag-content: its answer and the requests it
\* hands to processContentFlaggingRequest
flagContent(reqBody, clock, random, elapsed) ==
  LET code == validateContent(reqBody.content)
  IN  IF code # "OK"
        THEN [ reply |-> [status |-> 400, code |-> code], analysed |-> << >> ]
        ELSE
          LET flaggingReq == flaggingRequest(reqBody.content, reqBody.context)
          IN  [ reply |->
                  [ status   |-> 200,
                    response |-> processContentFlaggingRequest(flaggingReq, clock,
                                                               random, elapsed) ],
                analysed |-> << flaggingReq >> ]

\* validateBatch with >= for >
validateBatch_atLimit(requests) ==
  IF requests.kind # "array" THEN "INVALID_BATCH_FORMAT"
  ELSE IF Len(requests.items) = 0 THEN "EMPTY_BATCH"
  ELSE IF Len(requests.items) >= BatchLimit THEN "BATCH_SIZE_EXCEEDED"
  ELSE "OK"

\* the checks of the batch as a whole: the code of the 400 answer, or "OK"
validateBatch(requests) ==
  IF requests.kind # "array" THEN "INVALID_BATCH_FORMAT"
  ELSE IF Len(requests.items) = 0 THEN "EMPTY_BATCH"
  ELSE IF Len(requests.items) > BatchLimit THEN "BATCH_SIZE_EXCEEDED"
  ELSE "OK"

\* validateItem without the check of the type
validateItem_noTypeCheck(requestItem) ==
  IF ~requestItem.given THEN "TypeError"
  ELSE
    LET content == requestItem.content
    IN  IF ~content.given THEN "Missing required field: content"
        ELSE IF ~Truthy(content.id) \/ ~Truthy(content.userId) \/ ~Truthy(content.type)
          THEN "Content must include id, userId, and type fields"
        ELSE IF Falsy(content.hasText, content.text)
                  /\ Falsy(content.hasUrl, content.url)
          THEN "Content must include either text or url field"
        ELSE "OK"

\* the checks of one item of a batch: the message of the Error thrown, or
\* "OK"; destructuring a null item throws a TypeError
validateItem(requestItem) ==
  IF ~requestItem.given THEN "TypeError"
  ELSE
    LET content == requestItem.content
    IN  IF ~content.given THEN "Missing required field: content"
        ELSE IF ~Truthy(content.id) \/ ~Truthy(content.userId) \/ ~Truthy(content.type)
          THEN "Content must include id, userId, and type fields"
        ELSE IF content.type \notin validTypes THEN "Invalid content type"
        ELSE IF Falsy(content.hasText, content.text)
                  /\ Falsy(content.hasUrl, content.url)
          THEN "Content must include either text or url field"
        ELSE "OK"

\* the callback of requests.map for the item at index (counted from 0)
batchItem(requestItem, index, clock, random, elapsed) ==
  LET failure == validateItem(requestItem)
  IN  IF failure # "OK"
        THEN [ requestId        |-> << "error", index, clock >>,
               error            |-> IF failure = "TypeError" THEN << failure >>
                                    ELSE << "Request", index, failure >>,
               result           |-> Null,
               processingTimeMs |-> 0,
               timestamp        |-> clock ]
        ELSE processContentFlaggingRequest(
               flaggingRequest(requestItem.content, requestItem.context),
               clock, random, elapsed)

\* 'error' in r
HasError(r) == "error" \in DOMAIN r

\* the handler of POST /api/flag-content/batch: its answer and the requests
\* it hands to processContentFlaggingRequest; draws[i] holds the value of
\* Math.random() and the elapsed nanoseconds of the i-th item
flagContentBatch(reqBody, clock, draws) ==
  LET code == validateBatch(reqBody.requests)
  IN  IF code # "OK"
        THEN [ reply |-> [status |-> 400, code |-> code], analysed |-> << >> ]
        ELSE
          LET requests == reqBody.requests.items
              itemResponses ==
                [ i \in 1..Len(requests) |->
                    batchItem(requests[i], i - 1, clock,
                              draws[i].random, draws[i].elapsed) ]
              valid == SelectSeq(requests, LAMBDA item : validateItem(item) = "OK")
          IN  [ reply |->
                  [ status             |-> 200,
                    batchId            |-> << "batch", clock >>,
                    totalRequests      |-> Len(requests),
                    successfulRequests |->
                      Len(SelectSeq(itemResponses, LAMBDA r : ~HasError(r))),
                    failedRequests     |->
                      Len(SelectSeq(itemResponses, LAMBDA r : HasError(r))),
                    responses          |-> itemResponses ],
                analysed |->
                  [ k \in 1..Len(valid) |->
                      flaggingRequest(valid[k].content, valid[k].context) ] ]

-----------------------------------------------------------------------------
(* Values of the variables outside the specification that uses them *)

\* no HTTP request
NoBody == [endpoint |-> None]

\* no answer sent yet
NoReply == [status |-> 0]

\* no content analysed under the contexts yet
NoResults == << >>

AnalysisIdle ==
  /\ request = [ content |-> [hasText |-> FALSE, text |-> << >>,
                              hasUrl |-> FALSE, url |-> << >>],
                 context |-> NoContext ]
  /\ result = createCleanResult
  /\ pc = "start"
  /\ underContext = NoResults

ProcessIdle ==
  /\ now = 0
  /\ responses = << >>

HttpIdle ==
  /\ body = NoBody
  /\ reply = NoReply
  /\ analysed = << >>

ConcurrentIdle ==
  /\ calls = << >>
  /\ catalog = PATTERN_MAP

-----------------------------------------------------------------------------
(* The state machine: a request arrives and is analysed *)

Init ==
  /\ request \in Requests
  /\ result = createCleanResult
  /\ pc = "start"
  /\ underContext = NoResults
  /\ ProcessIdle
  /\ HttpIdle
  /\ ConcurrentIdle

\* analyzeContent(request)
Analyze ==
  /\ pc = "start"
  /\ result' = analyzeContent(request)
  /\ pc' = "done"
  /\ UNCHANGED <<request, underContext, processVars, httpVars, concurrentVars>>

Next == Analyze

Spec == Init /\ [][Next]_vars

-----------------------------------------------------------------------------
(* The state machine: processContentFlaggingRequest is called repeatedly   *)
(* while the clock advances                                                *)

\* the requests processed
ProcessRequests ==
  { [ content |-> [hasText |-> TRUE, text |-> << w >>,
                   hasUrl |-> FALSE, url |-> << >>],
      context |-> NoContext ] : w \in {"spam4", "fill95"} }

\* values of Math.random(), as base-36 digits of the fraction: 0, 0.5, and
\* two values that differ in the tenth digit only
RandomDraws ==
  LET nine == << "a", "b", "c", "d", "e", "f", "g", "h", "j" >>
  IN  { << >>, << "i" >>, nine \o << "x" >>, nine \o << "y" >> }

\* nanoseconds between the two readings of process.hrtime.bigint()
ElapsedNs == { 0, NsPerMs + NsPerMs \div 2 }

InitProcess ==
  /\ now = 0
  /\ responses = << >>
  /\ AnalysisIdle
  /\ HttpIdle
  /\ ConcurrentIdle

\* a millisecond passes
Tick ==
  /\ now < MaxClock
  /\ now' = now + 1
  /\ UNCHANGED <<responses, analysisVars, httpVars, concurrentVars>>

\* processContentFlaggingRequest(req)
Process ==
  /\ Len(responses) < MaxCalls
  /\ \E req \in ProcessRequests, random \in RandomDraws, elapsed \in ElapsedNs :
       responses' =
         Append(responses, processContentFlaggingRequest(req, now, random, elapsed))
  /\ UNCHANGED <<now, analysisVars, httpVars, concurrentVars>>

NextProcess == Tick \/ Process

SpecProcess == InitProcess /\ [][NextProcess]_vars

-----------------------------------------------------------------------------
(* The state machine: one HTTP request arrives and is answered *)

\* content.text and content.url of a body: undefined, "", " ", or a phrase
HttpTexts ==
  { [has |-> FALSE, str |-> << >>], [has |-> TRUE, str |-> << >>],
    [has |-> TRUE, str |-> << WS >>], [has |-> TRUE, str |-> << "spam4" >>] }

HttpUrls ==
  { [has |-> FALSE, str |-> << >>], [has |-> TRUE, str |-> << >>],
    [has |-> TRUE, str |-> << "bitly" >>] }

\* the content of a body: missing, or an object whose fields may be missing
HttpContents ==
  { [given |-> FALSE] } \cup
  { [ given |-> TRUE, id |-> id, userId |-> userId, type |-> type,
      hasText |-> t.has, text |-> t.str, hasUrl |-> u.has, url |-> u.str ] :
      id \in {None, "", "c1"}, userId \in {None, "u1"},
      type \in {None, "text", "link", "audio"}, t \in HttpTexts, u \in HttpUrls }

\* the context of a body: missing, or an object
HttpContexts ==
  { [given |-> FALSE] } \cup
  { [ given |-> TRUE, previousFlags |-> previousFlags, platform |-> platform,
      audience |-> None ] :
      previousFlags \in {Absent, 5}, platform \in {"", "twitter"} }

SingleBodies ==
  { [endpoint |-> "/api/flag-content", content |-> content, context |-> context] :
      content \in HttpContents, context \in HttpContexts }

\* a content with id, userId and type
ContentOf(type, text, url) ==
  [ given |-> TRUE, id |-> "c1", userId |-> "u1", type |-> type,
    hasText |-> text # << >>, text |-> text, hasUrl |-> url # << >>, url |-> url ]

\* the items of the batches: null, without content, without userId, of an
\* unknown type, without text and url, and three items that pass the checks
BatchItems ==
  { [given |-> FALSE],
    [given |-> TRUE, content |-> [given |-> FALSE], context |-> [given |-> FALSE]],
    [given |-> TRUE,
     content |-> [ContentOf("text", << "spam4" >>, << >>) EXCEPT !.userId = None],
     context |-> [given |-> FALSE]],
    [given |-> TRUE, content |-> ContentOf("audio", << "spam4" >>, << >>),
     context |-> [given |-> FALSE]],
    [given |-> TRUE, content |-> ContentOf("text", << >>, << >>),
     context |-> [given |-> FALSE]],
    [given |-> TRUE, content |-> ContentOf("text", << "fill95" >>, << >>),
     context |-> [given |-> FALSE]],
    [given |-> TRUE, content |-> ContentOf("text", << "spam4" >>, << >>),
     context |-> [given |-> FALSE]],
    [given |-> TRUE, content |-> ContentOf("link", << >>, << "bitly" >>),
     context |-> [given |-> TRUE, previousFlags |-> 5, platform |-> "twitter",
                  audience |-> None]] }

\* the item of the long batches, and an item that fails the checks
GoodItem ==
  [given |-> TRUE, content |-> ContentOf("text", << "spam4" >>, << >>),
   context |-> [given |-> FALSE]]

BadItem ==
  [given |-> TRUE, content |-> ContentOf("audio", << "spam4" >>, << >>),
   context |-> [given |-> FALSE]]

\* body.requests: undefined, a string, an array of up to MaxBatchLen items,
\* and arrays of BatchLimit and BatchLimit + 1 items
BatchRequests ==
  { [kind |-> "undefined", items |-> << >>], [kind |-> "string", items |-> << >>] }
    \cup { [kind |-> "array", items |-> items] :
             items \in SeqsUpTo(BatchItems, MaxBatchLen) }
    \cup { [kind |-> "array", items |-> [i \in 1..n |-> GoodItem]] :
             n \in {BatchLimit, BatchLimit + 1} }
    \cup { [kind |-> "array",
            items |-> [i \in 1..BatchLimit |->
                         IF i = BatchLimit THEN BadItem ELSE GoodItem]] }

BatchBodies ==
  { [endpoint |-> "/api/flag-content/batch", requests |-> requests] :
      requests \in BatchRequests }

\* a value of Math.random() with the nanoseconds elapsed in the same call
HttpDraws ==
  { [random |-> << >>, elapsed |-> 0],
    [random |-> << "i" >>, elapsed |-> NsPerMs + NsPerMs \div 2] }

InitHttp ==
  /\ body \in SingleBodies \cup BatchBodies
  /\ reply = NoReply
  /\ analysed = << >>
  /\ now \in 0..MaxClock
  /\ responses = << >>
  /\ AnalysisIdle
  /\ ConcurrentIdle

\* app.post('/api/flag-content', ...)
PostFlagContent ==
  /\ body.endpoint = "/api/flag-content"
  /\ reply = NoReply
  /\ \E draw \in HttpDraws :
       LET out == flagContent(body, now, draw.random, draw.elapsed)
       IN  /\ reply' = out.reply
           /\ analysed' = analysed \o out.analysed
  /\ UNCHANGED <<body, processVars, analysisVars, concurrentVars>>

\* app.post('/api/flag-content/batch', ...): the items at odd places draw
\* one value, those at even places another
PostFlagContentBatch ==
  /\ body.endpoint = "/api/flag-content/batch"
  /\ reply = NoReply
  /\ \E odd \in HttpDraws, even \in HttpDraws :
       LET draws == [ i \in 1..Len(body.requests.items) |->
                        IF i % 2 = 1 THEN odd ELSE even ]
           out   == flagContentBatch(body, now, draws)
       IN  /\ reply' = out.reply
           /\ analysed' = analysed \o out.analysed
  /\ UNCHANGED <<body, processVars, analysisVars, concurrentVars>>

NextHttp == PostFlagContent \/ PostFlagContentBatch

SpecHttp == InitHttp /\ [][NextHttp]_vars

-----------------------------------------------------------------------------
(* The state machine: calls of analyzeContent run concurrently, one entry  *)
(* of the catalog at a time                                                *)

Callers == {"c1", "c2"}

\* the requests of the concurrent calls
ConcurrentRequests ==
  { [ content |-> [hasText |-> FALSE, text |-> << >>, hasUrl |-> FALSE, url |-> << >>],
      context |-> NoContext ],
    [ content |-> [hasText |-> TRUE, text |-> << "spam4" >>,
                   hasUrl |-> TRUE, url |-> << "bitly" >>],
      context |-> NoContext ],
    [ content |-> [hasText |-> TRUE, text |-> << "ssn" >>,
                   hasUrl |-> FALSE, url |-> << >>],
      context |-> [previousFlags |-> Absent, platform |-> "twitter", audience |-> None] ],
    [ content |-> [hasText |-> TRUE, text |-> << "fill95" >>,
                   hasUrl |-> FALSE, url |-> << >>],
      context |-> [previousFlags |-> 5, platform |-> None, audience |-> None] ] }

\* a call that has not run any statement yet: its argument and its locals
NewCall(req) ==
  [ request |-> req, pc |-> "start", i |-> 1, acc |-> StartAcc,
    result |-> createCleanResult ]

InitConcurrent ==
  /\ calls \in [Callers -> { NewCall(req) : req \in ConcurrentRequests }]
  /\ catalog = PATTERN_MAP
  /\ AnalysisIdle
  /\ ProcessIdle
  /\ HttpIdle

\* the calls after call c has run the loop body for entry i, with the
\* accumulators held in variables of the module, shared by every call
LoopBody_sharedAccumulators(cs, c, cat) ==
  LET call == cs[c]
      flagReason == FlagReasons[call.i]
      acc == CheckEntry(call.acc, flagReason, cat[flagReason],
                        CombinedText(call.request.content), call.request.context)
  IN  [ d \in DOMAIN cs |->
          IF d = c
            THEN [ call EXCEPT !.acc = acc, !.i = call.i + 1,
                               !.pc = IF call.i = Len(FlagReasons)
                                        THEN "personal" ELSE "loop" ]
            ELSE [ cs[d] EXCEPT !.acc = acc ] ]

\* the calls after call c has run the loop body for entry i of the catalog
LoopBody(cs, c, cat) ==
  LET call == cs[c]
      flagReason == FlagReasons[call.i]
      acc == CheckEntry(call.acc, flagReason, cat[flagReason],
                        CombinedText(call.request.content), call.request.context)
  IN  [ cs EXCEPT ![c] = [ call EXCEPT !.acc = acc, !.i = call.i + 1,
                                       !.pc = IF call.i = Len(FlagReasons)
                                                THEN "personal" ELSE "loop" ] ]

\* the guard on text and url, and the declaration of the locals
Enter(c) ==
  /\ calls[c].pc = "start"
  /\ LET content == calls[c].request.content
     IN  calls' =
           [ calls EXCEPT ![c] =
               IF Falsy(content.hasText, content.text)
                    /\ Falsy(content.hasUrl, content.url)
                 THEN [ @ EXCEPT !.result = createCleanResult, !.pc = "done" ]
                 ELSE [ @ EXCEPT !.pc = "loop" ] ]
  /\ UNCHANGED <<catalog, analysisVars, processVars, httpVars>>

\* one iteration of the loop over Object.entries(PATTERN_MAP)
Iterate(c) ==
  /\ calls[c].pc = "loop"
  /\ calls' = LoopBody(calls, c, catalog)
  /\ UNCHANGED <<catalog, analysisVars, processVars, httpVars>>

\* the check for personal information exposure
PersonalInfo(c) ==
  /\ calls[c].pc = "personal"
  /\ calls' =
       [ calls EXCEPT ![c].acc =
                        CheckPersonalInfo(@, CombinedText(calls[c].request.content)),
                      ![c].pc = "return" ]
  /\ UNCHANGED <<catalog, analysisVars, processVars, httpVars>>

\* the context adjustment and the return
Return(c) ==
  /\ calls[c].pc = "return"
  /\ calls' =
       [ calls EXCEPT ![c].result = FlagResultOf(calls[c].acc, calls[c].request.context),
                      ![c].pc = "done" ]
  /\ UNCHANGED <<catalog, analysisVars, processVars, httpVars>>

NextConcurrent ==
  \E c \in Callers : Enter(c) \/ Iterate(c) \/ PersonalInfo(c) \/ Return(c)

SpecConcurrent == InitConcurrent /\ [][NextConcurrent]_vars

-----------------------------------------------------------------------------
(* The state machine: analyzeContent is called for one content item under  *)
(* every context                                                           *)

\* the requests before a context is attached
ContextRequests == [ content : Contents, context : {NoContext} ]

InitContexts ==
  /\ request \in ContextRequests
  /\ result = createCleanResult
  /\ pc = "start"
  /\ underContext = NoResults
  /\ ProcessIdle
  /\ HttpIdle
  /\ ConcurrentIdle

\* analyzeContent({content, context}) for every context
AnalyzeContexts ==
  /\ pc = "start"
  /\ underContext' = [ context \in Contexts |->
                      analyzeContent([content |-> request.content, context |-> context]) ]
  /\ pc' = "done"
  /\ UNCHANGED <<request, result, processVars, httpVars, concurrentVars>>

NextContexts == AnalyzeContexts

SpecContexts == InitContexts /\ [][NextContexts]_vars

-----------------------------------------------------------------------------
(* Vocabulary of the properties *)

Done == pc = "done"

Range(f) == { f[i] : i \in DOMAIN f }

\* the categories listed in the result
ReasonSet == Range(result.reasons)

\* text and url joined by one whitespace character, then trimmed
Combined ==
  Trim((IF request.content.hasText THEN request.content.text ELSE << >>)
         \o << WS >>
         \o (IF request.content.hasUrl THEN request.content.url ELSE << >>))

\* the rules of a category: those of the catalog, and for personal
\* information those of the dedicated rule set too
RuleSets ==
  [ reason \in Range(FlagReasons) |->
      Range(PATTERN_MAP[reason]) \cup
        (IF reason = "personal_information"
           THEN {"pi_ssn", "pi_phone", "pi_email", "pi_credit_card"} ELSE {}) ]

\* the rules that occur somewhere in str
MatchedRules(str) == UNION { TokenMatches(str[i]) : i \in 1..Len(str) }

\* the rules of a category that occur in str
RulesIn(str, reason) == RuleSets[reason] \cap MatchedRules(str)

\* the categories with at least one rule that occurs in str
HitIn(str) ==
  LET matched == MatchedRules(str)
  IN  { reason \in Range(FlagReasons) : RuleSets[reason] \cap matched # {} }

Hit == HitIn(Combined)

\* previousFlags is set and above 3
PreviousFlagsAbove3 == request.context.previousFlags > 3

\* the place of a category in the catalog
CatalogIndex(reason) == CHOOSE i \in 1..Len(FlagReasons) : FlagReasons[i] = reason

SeverityRank == [low |-> 0, medium |-> 1, high |-> 2, critical |-> 3]

\* short (under 100 characters), long (over 1000) or in between
LengthClass(str) ==
  IF StrLen(str) < 100 THEN "short"
  ELSE IF StrLen(str) > 1000 THEN "long" ELSE "mid"

-----------------------------------------------------------------------------
(* C1 *)

\* C1 as stated: isFlagged is true only when at least one category was hit;
\* with zero hit categories the context never pushes confidence above 0.3
\* and never causes the content to be flagged.  Stated for content whose
\* combined text is not empty, so that a violation does not rest on the
\* treatment of whitespace-only content (C2).
C1_FlaggedOnlyWhenHit ==
  Done /\ Combined # << >> =>
    /\ result.isFlagged => Len(result.reasons) > 0
    /\ Hit = {} => result.confidence <= 30 /\ ~result.isFlagged

\* C1 amended: with zero hit categories, the platform and audience signals
\* alone never push confidence above 0.3 and never cause the content to be
\* flagged; previousFlags above 3 does: content with a non-empty combined text
\* that hits no category then has confidence >= 0.4 and isFlagged = true with
\* empty reasons.
C1_FlaggedWithoutHitOnlyForRepeatOffender ==
  Done /\ Hit = {} =>
    /\ result.reasons = << >>
    /\ ~PreviousFlagsAbove3 => result.confidence <= 30 /\ ~result.isFlagged
    /\ PreviousFlagsAbove3 /\ Combined # << >> =>
         result.confidence >= 40 /\ result.isFlagged

C1_Witness ==
  /\ Done
  /\ Hit = {}
  /\ Combined # << >>
  /\ request.context.previousFlags = 3
  /\ request.context.platform = "twitter"
  /\ request.context.audience = "children"
  /\ result.confidence = 15
  /\ ~result.isFlagged

-----------------------------------------------------------------------------
(* C2 *)

\* C2: whenever the combined text is the empty string the result is
\* isFlagged = false, reasons = [], confidence = 0 and severity = low, for
\* every context.
C2_EmptyCombinedTextIsClean ==
  Done /\ Combined = << >> =>
    /\ result.isFlagged = FALSE
    /\ result.reasons = << >>
    /\ result.confidence = 0
    /\ result.severity = "low"

-----------------------------------------------------------------------------
(* C3 *)

\* C3: reasons contains no category more than once and lists its categories
\* in catalog iteration order.
C3_ReasonsOrderedWithoutDuplicates ==
  Done =>
    \A i, j \in 1..Len(result.reasons) :
      i < j => CatalogIndex(result.reasons[i]) < CatalogIndex(result.reasons[j])

-----------------------------------------------------------------------------
(* C4 *)

\* C4: for every content item and every context the returned confidence
\* lies between 0 and 1.
C4_ConfidenceInUnitInterval ==
  Done => 0 <= result.confidence /\ result.confidence <= Scale

\* three categories hit under every context boost: the sum of the category
\* confidences is far above 1
C4_Witness ==
  /\ Done
  /\ Cardinality(Hit) >= 3
  /\ PreviousFlagsAbove3
  /\ request.context.platform = "twitter"
  /\ request.context.audience = "children"
  /\ result.confidence = Scale

-----------------------------------------------------------------------------
(* C5 *)

\* C5: a category appears in reasons if and only if at least one of its rules
\* matched the combined text; whenever any category is hit isFlagged is true,
\* and reasons is empty exactly when no category had a match.
C5_ReasonsAreTheHitCategories ==
  Done =>
    LET hit == Hit
    IN  /\ \A reason \in Range(FlagReasons) : reason \in ReasonSet <=> reason \in hit
        /\ hit # {} => result.isFlagged
        /\ result.reasons = << >> <=> hit = {}

\* the only spam rule that matches is met in the url, the first rule of
\* hate_speech in the text
C5_Witness ==
  /\ Done
  /\ request.content.url = << "bitly" >>
  /\ request.content.text = << "all_people" >>
  /\ ReasonSet = {"spam", "hate_speech", "inappropriate_language"}
  /\ result.isFlagged

-----------------------------------------------------------------------------
(* C6 *)

\* C6 as stated: for every content item, previousFlags above 3 gives
\* confidence >= 0.4, content that hits no category included.
C6_RepeatOffenderMinimum ==
  Done /\ PreviousFlagsAbove3 => result.confidence >= 40

\* C6 amended: for every content item whose combined text is not empty,
\* previousFlags above 3 gives confidence >= 0.4, content that hits no
\* category included.
C6_RepeatOffenderMinimumNonEmpty ==
  Done /\ PreviousFlagsAbove3 /\ Combined # << >> => result.confidence >= 40

C6_Witness ==
  /\ Done
  /\ request.context.previousFlags = 5
  /\ request.context.platform = None
  /\ request.context.audience = None
  /\ Combined # << >>
  /\ Hit = {}
  /\ result.confidence = 40

-----------------------------------------------------------------------------
(* C7 *)

\* C7: content whose only hit category is personal_information, analysed
\* without context, has severity high and confidence > 0.8, whichever rules
\* match and whatever the text length.
C7_PersonalInformationOnly ==
  Done /\ Hit = {"personal_information"} /\ request.context = NoContext =>
    /\ result.severity = "high"
    /\ result.confidence > 80

-----------------------------------------------------------------------------
(* C8 *)

\* the content with the phrases of other categories than reason removed
\* (phrases no rule matches stay)
RECURSIVE KeepOnly(_, _)
KeepOnly(str, reason) ==
  IF str = << >> THEN << >>
  ELSE LET t    == Head(str)
           rest == KeepOnly(Tail(str), reason)
       IN  IF TokenMatches(t) \subseteq Range(PATTERN_MAP[reason])
             THEN << t >> \o rest
             ELSE IF rest # << >> /\ Head(rest) = WS THEN Tail(rest) ELSE rest

SoloRequest(reason) ==
  [ content |-> [ hasText |-> request.content.hasText,
                  text    |-> Trim(KeepOnly(request.content.text, reason)),
                  hasUrl  |-> request.content.hasUrl,
                  url     |-> Trim(KeepOnly(request.content.url, reason)) ],
    context |-> request.context ]

SoloCombined(reason) == CombinedText(SoloRequest(reason).content)

\* the solo content hits reason alone, with the same rules, in the same
\* text-length class
IsSolo(reason) ==
  /\ HitIn(SoloCombined(reason)) = {reason}
  /\ RulesIn(SoloCombined(reason), reason) = RulesIn(Combined, reason)
  /\ LengthClass(SoloCombined(reason)) = LengthClass(Combined)

SoloConfidence(reason) == analyzeContent(SoloRequest(reason)).confidence

BothSpamAndHarassment == {"spam", "harassment"} \subseteq Hit

\* C8 as stated: content that hits both spam and harassment has more than one
\* reason and a confidence strictly greater than that of content hitting only
\* those spam rules and of content hitting only those harassment rules.
C8_BothAboveEitherSolo ==
  Done /\ BothSpamAndHarassment =>
    /\ Len(result.reasons) > 1
    /\ \A reason \in {"spam", "harassment"} :
         IsSolo(reason) => result.confidence > SoloConfidence(reason)

\* C8 amended: the confidence is at least either solo confidence, and
\* strictly greater than a solo confidence that is below 1.
C8_BothAtLeastEitherSolo ==
  Done /\ BothSpamAndHarassment =>
    /\ Len(result.reasons) > 1
    /\ \A reason \in {"spam", "harassment"} :
         IsSolo(reason) =>
           /\ result.confidence >= SoloConfidence(reason)
           /\ SoloConfidence(reason) < Scale =>
                result.confidence > SoloConfidence(reason)

C8_Witness ==
  /\ Done
  /\ Hit = {"spam", "harassment"}
  /\ IsSolo("spam") /\ IsSolo("harassment")
  /\ SoloConfidence("spam") < result.confidence
  /\ SoloConfidence("harassment") < result.confidence
  /\ result.confidence < Scale

-----------------------------------------------------------------------------
(* C9 *)

\* the severity of a hit category: its (possibly escalated) severity at the
\* confidence of its matching rules
CategorySeverity(reason) ==
  getSeverityForReason(reason,
    calculateConfidence(findPatternMatches(Combined, PATTERN_MAP[reason]),
                        Combined, request.context))

\* C9: the overall severity is the maximum, in the order low < medium < high <
\* critical, of the severities of all hit categories, and low when no
\* category is hit; a violence hit yields critical, a hate_speech or phishing
\* hit at least high.
C9_SeverityIsMaximum ==
  Done =>
    LET hit == Hit
    IN  /\ \A reason \in hit :
             SeverityRank[CategorySeverity(reason)] <= SeverityRank[result.severity]
        /\ \/ \E reason \in hit : CategorySeverity(reason) = result.severity
           \/ hit = {} /\ result.severity = "low"
        /\ "violence" \in hit => result.severity = "critical"
        /\ hit \cap {"hate_speech", "phishing"} # {} =>
             SeverityRank[result.severity] >= SeverityRank["high"]

\* the category of highest severity is neither the first nor the last hit
C9_Witness ==
  /\ Done
  /\ result.reasons = << "harassment", "violence", "adult_content" >>
  /\ result.severity = "critical"

-----------------------------------------------------------------------------
(* C10 *)

\* C10: content whose only hit category is harassment has overall severity
\* high, for every number of matching rules, text length and context.
C10_HarassmentPinnedAtHigh ==
  Done /\ Hit = {"harassment"} => result.severity = "high"

\* four harassment rules in a short text of a repeat offender: the category
\* confidence is 1.0
C10_Witness ==
  /\ Done
  /\ Hit = {"harassment"}
  /\ Cardinality(RulesIn(Combined, "harassment")) >= 4
  /\ LengthClass(Combined) = "short"
  /\ PreviousFlagsAbove3
  /\ result.severity = "high"

-----------------------------------------------------------------------------
(* C11 *)

\* a context signal that raises the confidence: previousFlags above 3, the
\* twitter platform or the children audience
ContextBoost ==
  \/ PreviousFlagsAbove3
  \/ request.context.platform = "twitter"
  \/ request.context.audience = "children"

\* neither text nor url is given (undefined or the empty string)
NoTextNoUrl ==
  /\ Falsy(request.content.hasText, request.content.text)
  /\ Falsy(request.content.hasUrl, request.content.url)

\* C11 as stated: the confidence returned by analyzeContent is 0 if and only
\* if reasons is empty and no context boost applies (previousFlags <= 3 or
\* absent, platform not twitter, audience not children).
C11_ZeroIffNoReasonNoBoost ==
  Done => (result.confidence = 0 <=> (result.reasons = << >> /\ ~ContextBoost))

\* C11 amended: for content that has a text or a url, the confidence is 0 if
\* and only if reasons is empty and no context boost applies; content with
\* neither text nor url has confidence 0 under every context.
C11_ZeroIffNoReasonNoBoostGivenContent ==
  Done =>
    /\ NoTextNoUrl => result.confidence = 0
    /\ ~NoTextNoUrl =>
         (result.confidence = 0 <=> (result.reasons = << >> /\ ~ContextBoost))

C11_Witness ==
  /\ Done
  /\ Combined # << >>
  /\ result.reasons = << >>
  /\ request.context.previousFlags = 3
  /\ ~ContextBoost
  /\ result.confidence = 0

-----------------------------------------------------------------------------
(* C12 *)

\* C12: isFlagged equals (confidence > 0.3) or (at least one category hit),
\* the confidence being the context-adjusted, clamped value that is returned.
C12_FlaggedIffAboveThresholdOrHit ==
  Done => (result.isFlagged <=> (result.confidence > 30 \/ Hit # {}))

C12_Witness ==
  /\ Done
  /\ Hit = {}
  /\ result.confidence > 30
  /\ result.isFlagged

-----------------------------------------------------------------------------
(* C13 *)

\* percent is Math.round(confidence * 100), confidence held in 1/Scale
IsRounded(percent, confidence) ==
  LET twice == 2 * (percent * Scale - confidence * 100)
  IN  -Scale < twice /\ twice <= Scale

\* details is the 'Detected ...' string of the returned reasons and confidence
DetailsDetected ==
  /\ result.details.kind = "detected"
  /\ result.details.reasons = result.reasons
  /\ IsRounded(result.details.percent, result.confidence)
  /\ result.details.percent <= 100

\* C13 as stated: for every FlagResult, details is 'Content appears to be
\* clean' whenever reasons is empty, and otherwise 'Detected <reasons joined
\* by ", "> with <round(confidence * 100)>% confidence' for the returned
\* confidence, so that the percentage never exceeds 100.
C13_DetailsFollowReasons ==
  Done =>
    IF result.reasons = << >> THEN result.details.kind = "clean"
    ELSE DetailsDetected

\* C13 amended: the result for content with neither text nor url carries no
\* details; every other FlagResult has details 'Content appears to be clean'
\* when reasons is empty and otherwise 'Detected <reasons joined by ", "> with
\* <round(confidence * 100)>% confidence' for the returned confidence, the
\* percentage never exceeding 100.
C13_DetailsFollowReasonsGivenContent ==
  Done =>
    IF NoTextNoUrl THEN result.details.kind = None
    ELSE IF result.reasons = << >> THEN result.details.kind = "clean"
    ELSE DetailsDetected

C13_Witness ==
  /\ Done
  /\ Len(result.reasons) >= 2
  /\ result.details.kind = "detected"
  /\ result.details.percent = 100
  /\ request.context.previousFlags = Absent

-----------------------------------------------------------------------------
(* C16 *)

\* the content with text and url exchanged
SwapTextUrl(content) ==
  [ hasText |-> content.hasUrl, text |-> content.url,
    hasUrl  |-> content.hasText, url |-> content.text ]

\* the content is one non-empty string, given as the text or as the url
OneStringOnly ==
  \/ request.content.hasText /\ request.content.text # << >>
       /\ ~request.content.hasUrl
  \/ request.content.hasUrl /\ request.content.url # << >>
       /\ ~request.content.hasText

\* C16: for every non-empty string s and every context, content with url = s
\* and no text has the same FlagResult as content with text = s and no url.
C16_UrlOnlyAsTextOnly ==
  Done /\ OneStringOnly =>
    analyzeContent([ content |-> SwapTextUrl(request.content),
                     context |-> request.context ]) = result

C16_Witness ==
  /\ Done
  /\ OneStringOnly
  /\ request.content.hasUrl
  /\ result.reasons = << "spam" >>
  /\ result.confidence = 40

-----------------------------------------------------------------------------
(* C20 *)

\* C20 as stated: a personal-information hit contributes exactly 0.9 to the
\* confidence sum before context adjustment, whatever the number of rules
\* matched, the text length and previousFlags.  Stated for content that hits
\* no other category, where the sum is the contribution of the hit.
C20_PersonalInformationAddsFixedAmount ==
  Done /\ Hit = {"personal_information"} =>
    Detect(CombinedText(request.content), request.context).totalConfidence = 90

-----------------------------------------------------------------------------
(* C14 *)

-----------------------------------------------------------------------------
(* C15 *)

\* C15: under any interleaving of concurrent calls of analyzeContent, each
\* call returns the FlagResult the same call returns when run alone, and no
\* call modifies the pattern catalog.
C15_CallsDoNotInterfere ==
  /\ catalog = PATTERN_MAP
  /\ \A c \in DOMAIN calls :
       calls[c].pc = "done" => calls[c].result = analyzeContent(calls[c].request)

C15_Witness ==
  /\ calls # << >>
  /\ calls["c1"].pc = "done"
  /\ calls["c1"].result.reasons = << "spam" >>
  /\ calls["c2"].pc = "loop"
  /\ calls["c2"].i = 5
  /\ calls["c2"].request # calls["c1"].request

-----------------------------------------------------------------------------
(* C17 *)

\* POST /api/flag-content has been answered
SingleAnswered == body.endpoint = "/api/flag-content" /\ reply # NoReply

\* POST /api/flag-content/batch has been answered
BatchAnswered == body.endpoint = "/api/flag-content/batch" /\ reply # NoReply

\* the answer is a 400 with the code, and the core was not invoked
Rejected(code) ==
  /\ reply.status = 400
  /\ reply.code = code
  /\ analysed = << >>

\* C17: POST /api/flag-content answers 400 with the code of the first check
\* that fails, in the order: content missing (MISSING_CONTENT); id, userId
\* or type missing (INVALID_CONTENT_FORMAT); type outside text, image, video,
\* link (INVALID_CONTENT_TYPE); neither text nor url (MISSING_CONTENT_DATA).
\* The core is invoked only when all four pass, and never with both text and
\* url empty.
C17_FirstFailingCheckAnswers ==
  SingleAnswered =>
    LET content == body.content
    IN  /\ IF ~content.given THEN Rejected("MISSING_CONTENT")
           ELSE IF \/ content.id \in {None, ""}
                   \/ content.userId \in {None, ""}
                   \/ content.type \in {None, ""}
             THEN Rejected("INVALID_CONTENT_FORMAT")
           ELSE IF content.type \notin {"text", "image", "video", "link"}
             THEN Rejected("INVALID_CONTENT_TYPE")
           ELSE IF /\ ~content.hasText \/ content.text = << >>
                   /\ ~content.hasUrl \/ content.url = << >>
             THEN Rejected("MISSING_CONTENT_DATA")
           ELSE /\ reply.status = 200
                /\ Len(analysed) = 1
                /\ reply.response.result = analyzeContent(analysed[1])
        /\ \A k \in DOMAIN analysed :
             \/ analysed[k].content.hasText /\ analysed[k].content.text # << >>
             \/ analysed[k].content.hasUrl /\ analysed[k].content.url # << >>

C17_Witness ==
  /\ SingleAnswered
  /\ body.content.given
  /\ body.content.userId = None
  /\ body.content.type = "audio"
  /\ ~body.content.hasText /\ ~body.content.hasUrl
  /\ reply.status = 400
  /\ reply.code = "INVALID_CONTENT_FORMAT"

-----------------------------------------------------------------------------
(* C18 *)

\* C18: POST /api/flag-content/batch processes items only when requests is
\* an array of 1 to 100 entries; a non-array is rejected with
\* INVALID_BATCH_FORMAT, an empty array with EMPTY_BATCH, more than 100
\* entries with BATCH_SIZE_EXCEEDED, each as a 400 with no item analysed.
C18_BatchOfOneToHundred ==
  BatchAnswered =>
    LET requests == body.requests
    IN  IF requests.kind # "array" THEN Rejected("INVALID_BATCH_FORMAT")
        ELSE IF Len(requests.items) = 0 THEN Rejected("EMPTY_BATCH")
        ELSE IF Len(requests.items) > BatchLimit THEN Rejected("BATCH_SIZE_EXCEEDED")
        ELSE /\ reply.status = 200
             /\ Len(reply.responses) = Len(requests.items)

C18_Witness ==
  /\ BatchAnswered
  /\ Len(body.requests.items) = BatchLimit + 1
  /\ reply.status = 400
  /\ reply.code = "BATCH_SIZE_EXCEEDED"
  /\ analysed = << >>

-----------------------------------------------------------------------------
(* C19 *)

\* the answer of the single endpoint to an item of a batch sent on its own
SingleAnswer(item) ==
  flagContent([ endpoint |-> "/api/flag-content",
                content |-> item.content, context |-> item.context ],
              now, << >>, 0).reply

\* the item fails the checks of the single endpoint (a null item has no
\* content to check)
FailsValidation(item) ==
  IF ~item.given THEN TRUE ELSE SingleAnswer(item).status = 400

\* C19: in an accepted batch, an item that fails validation yields an error
\* entry with result null at its own index and every other item is analysed:
\* responses has the length and order of requests, the result of each valid
\* item is the result the single endpoint returns for it, and
\* successfulRequests + failedRequests = totalRequests.
C19_BatchItemsAreIndependent ==
  BatchAnswered /\ reply.status = 200 =>
    LET requests == body.requests.items
        failing  == { i \in DOMAIN requests : FailsValidation(requests[i]) }
    IN  /\ Len(reply.responses) = Len(requests)
        /\ \A i \in DOMAIN requests :
             LET r == reply.responses[i]
             IN  IF i \in failing
                   THEN /\ HasError(r)
                        /\ r.result = Null
                        /\ r.requestId[2] = i - 1
                   ELSE /\ ~HasError(r)
                        /\ r.result = SingleAnswer(requests[i]).response.result
        /\ reply.totalRequests = Len(requests)
        /\ reply.failedRequests = Cardinality(failing)
        /\ reply.successfulRequests + reply.failedRequests = reply.totalRequests

C19_Witness ==
  /\ BatchAnswered
  /\ reply.status = 200
  /\ Len(body.requests.items) = 2
  /\ HasError(reply.responses[1])
  /\ ~HasError(reply.responses[2])
  /\ reply.responses[2].result.isFlagged
  /\ reply.successfulRequests = 1
  /\ reply.failedRequests = 1

-----------------------------------------------------------------------------
(* C21 *)

\* the number of rules of the catalog entry of reason that occur in str
MatchCount(str, reason) ==
  Cardinality(Range(PATTERN_MAP[reason]) \cap MatchedRules(str))

\* the categories whose catalog entry has a rule that occurs in str
CatalogHit(str) ==
  LET matched == MatchedRules(str)
  IN  { reason \in Range(FlagReasons) : Range(PATTERN_MAP[reason]) \cap matched # {} }

\* clamp(min(0.2 m, 0.8) + (0.2 if L < 100) - (0.1 if L > 1000)
\*         + (0.1 if previousFlags > 3), 0, 1)
ClaimedConfidence(m, L, previousFlags) ==
  LET sum == Min(20 * m, 80)
               + (IF L < 100 THEN 20 ELSE 0)
               - (IF L > 1000 THEN 10 ELSE 0)
               + (IF previousFlags > 3 THEN 10 ELSE 0)
  IN  Max(0, Min(sum, Scale))

\* the confidence the loop computes for a hit category
CategoryConfidence(reason) ==
  calculateConfidence(findPatternMatches(Combined, PATTERN_MAP[reason]),
                      Combined, request.context)

\* C21: for a hit category with m >= 1 matching rules and a combined text of
\* length L, the confidence of the category is clamp(min(0.2 m, 0.8) + (0.2
\* if L < 100) - (0.1 if L > 1000) + (0.1 if previousFlags > 3), 0, 1), with
\* no adjustment at L = 100, L = 1000 and previousFlags = 3, and it is at
\* least 0.1.  A single category hit without context signal returns this
\* value as the confidence of the result.
C21_CategoryConfidenceFormula ==
  Done /\ ~NoTextNoUrl =>
    LET hit == CatalogHit(Combined)
        L   == StrLen(Combined)
    IN  /\ \A reason \in hit :
             LET claimed == ClaimedConfidence(MatchCount(Combined, reason), L,
                                              request.context.previousFlags)
             IN  /\ CategoryConfidence(reason) = claimed
                 /\ claimed >= 10
                 /\ hit = {reason} /\ reason # "personal_information"
                      /\ ~ContextBoost => result.confidence = claimed

C21_Witness ==
  /\ Done
  /\ StrLen(Combined) = 100
  /\ request.context.previousFlags = 3
  /\ Hit = {"adult_content"}
  /\ ~ContextBoost
  /\ result.confidence = 20

-----------------------------------------------------------------------------
(* C22 *)

\* the confidence sum: the confidences of the categories hit in the catalog,
\* entries i to the last, and 0.9 for a match of the personal-information
\* rule set
RECURSIVE CatalogSum(_, _, _, _)
CatalogSum(i, matched, L, previousFlags) ==
  IF i > Len(FlagReasons) THEN 0
  ELSE LET m == Cardinality(Range(PATTERN_MAP[FlagReasons[i]]) \cap matched)
       IN  (IF m = 0 THEN 0 ELSE ClaimedConfidence(m, L, previousFlags))
             + CatalogSum(i + 1, matched, L, previousFlags)

ConfidenceSum ==
  LET matched == MatchedRules(Combined)
  IN  CatalogSum(1, matched, StrLen(Combined), request.context.previousFlags)
        + (IF Range(PERSONAL_INFO_PATTERNS) \cap matched # {} THEN 90 ELSE 0)

\* the adjustments in the order claimed
ClaimedFinalConfidence(sum, hitCount, context) ==
  LET multiple == IF hitCount > 1 THEN sum + 10 * (hitCount - 1) ELSE sum
      repeat   == IF context.previousFlags > 3
                    THEN Max(multiple + 20, 40) ELSE multiple
      platform == repeat + (IF context.platform = "twitter" THEN 5 ELSE 0)
      audience == platform + (IF context.audience = "children" THEN 10 ELSE 0)
  IN  Max(0, Min(audience, Scale))

\* C22: the final confidence is computed from the confidence sum in this
\* order: add 0.1 * (hit categories - 1) when more than one category is hit;
\* then, if previousFlags > 3, replace the value by max(value + 0.2, 0.4);
\* then add 0.05 for platform twitter; then add 0.1 for audience children;
\* then clamp to [0, 1].  Stated for content that is analysed (a text or a
\* url is given).
C22_AdjustmentsInOrder ==
  Done /\ ~NoTextNoUrl =>
    result.confidence =
      ClaimedFinalConfidence(ConfidenceSum, Cardinality(Hit), request.context)

\* no category hit, repeat offender on twitter: 0.4 from the floor, then 0.05
C22_Witness ==
  /\ Done
  /\ Combined # << >>
  /\ Hit = {}
  /\ PreviousFlagsAbove3
  /\ request.context.platform = "twitter"
  /\ request.context.audience = None
  /\ result.confidence = 45

-----------------------------------------------------------------------------
(* C23 *)

\* one tier up, critical staying critical
NextTier(severity) ==
  IF severity = "low" THEN "medium"
  ELSE IF severity = "medium" THEN "high"
  ELSE "critical"

\* C23: for every hit category other than harassment, the severity of the
\* category is its base severity raised by exactly one tier (critical stays
\* critical) when the confidence of the category is strictly greater than
\* 0.8, and exactly the base severity when that confidence is 0.8 or less,
\* personal_information included.  The confidence of a category is the one
\* of C21; content that hits one category has the severity of that category.
C23_EscalationByOneTier ==
  Done /\ ~NoTextNoUrl =>
    LET hit == CatalogHit(Combined)
        L   == StrLen(Combined)
    IN  \A reason \in hit \ {"harassment"} :
          LET confidence == ClaimedConfidence(MatchCount(Combined, reason), L,
                                              request.context.previousFlags)
              claimed    == IF confidence > 80 THEN NextTier(severityMap[reason])
                            ELSE severityMap[reason]
          IN  /\ CategorySeverity(reason) = claimed
              /\ hit = {reason} => result.severity = claimed

\* four misinformation rules in a text of 100 to 1000 characters: the
\* confidence is exactly 0.8 and the severity stays medium
C23_Witness ==
  /\ Done
  /\ Hit = {"misinformation"}
  /\ CategoryConfidence("misinformation") = 80
  /\ result.severity = "medium"

-----------------------------------------------------------------------------
(* C24 *)

\* the severity is above the base severity of reason
AboveBase(severity, reason) ==
  SeverityRank[severity] > SeverityRank[severityMap[reason]]

\* at least 4 rules of reason match and the combined text is shorter than
\* 100 characters
FourRulesInShortText(reason) ==
  MatchCount(Combined, reason) >= 4 /\ StrLen(Combined) < 100

\* the categories with fewer than 4 rules are not escalated, and content
\* whose only hit is adult_content has severity medium
FewRulesNeverEscalated(hit) ==
  /\ \A reason \in hit \cap {"hate_speech", "adult_content", "inappropriate_language"} :
       CategorySeverity(reason) = severityMap[reason]
  /\ hit = {"adult_content"} => result.severity = "medium"

\* C24 as stated: when previousFlags is absent or at most 3, a hit category
\* is escalated above its base severity if and only if at least 4 of its
\* rules match and the combined text is shorter than 100 characters; hence
\* hate_speech, adult_content and inappropriate_language are never escalated
\* without repeat-offender context, and a text whose only hit is
\* adult_content has severity medium.
C24_EscalatedIffFourRulesShort ==
  Done /\ ~NoTextNoUrl /\ ~PreviousFlagsAbove3 =>
    LET hit == CatalogHit(Combined)
    IN  /\ \A reason \in hit :
             /\ AboveBase(CategorySeverity(reason), reason)
                  <=> FourRulesInShortText(reason)
             /\ hit = {reason} =>
                  (AboveBase(result.severity, reason) <=> FourRulesInShortText(reason))
        /\ FewRulesNeverEscalated(hit)

\* C24 amended: when previousFlags is absent or at most 3, a hit category
\* other than harassment and violence is escalated above its base severity
\* if and only if at least 4 of its rules match and the combined text is
\* shorter than 100 characters; harassment (pinned at high) and violence
\* (critical already) are never above their base severity; hate_speech,
\* adult_content and inappropriate_language are never escalated without
\* repeat-offender context, and a text whose only hit is adult_content has
\* severity medium.
C24_EscalatedIffFourRulesShortUnlessPinned ==
  Done /\ ~NoTextNoUrl /\ ~PreviousFlagsAbove3 =>
    LET hit == CatalogHit(Combined)
    IN  /\ \A reason \in hit \ {"harassment", "violence"} :
             /\ AboveBase(CategorySeverity(reason), reason)
                  <=> FourRulesInShortText(reason)
             /\ hit = {reason} =>
                  (AboveBase(result.severity, reason) <=> FourRulesInShortText(reason))
        /\ \A reason \in hit \cap {"harassment", "violence"} :
             /\ ~AboveBase(CategorySeverity(reason), reason)
             /\ hit = {reason} => result.severity = severityMap[reason]
        /\ FewRulesNeverEscalated(hit)

\* four spam rules in a short text: low is raised to medium
C24_Witness ==
  /\ Done
  /\ ~PreviousFlagsAbove3
  /\ Hit = {"spam"}
  /\ FourRulesInShortText("spam")
  /\ result.severity = "medium"

-----------------------------------------------------------------------------
(* C25 *)

\* values of the fields of a content item other than text and url
Identities ==
  [ id : {"c1", "c2"}, userId : {"u1", "u2"},
    type : {"text", "image", "video", "link"}, metadata : {None, "m1"} ]

\* the request with id, userId, type and metadata replaced
WithIdentity(req, identity) ==
  [ content |->
      [ id |-> identity.id, userId |-> identity.userId, type |-> identity.type,
        metadata |-> identity.metadata,
        hasText |-> req.content.hasText, text |-> req.content.text,
        hasUrl |-> req.content.hasUrl, url |-> req.content.url ],
    context |-> req.context ]

\* C25: the FlagResult depends on the content item only through text and
\* url: requests with the same text, url and context and different id,
\* userId, type or metadata have the same FlagResult.
C25_ResultIgnoresIdentity ==
  SingleAnswered /\ reply.status = 200 =>
    \A identity \in Identities :
      analyzeContent(WithIdentity(analysed[1], identity)) = reply.response.result

C25_Witness ==
  /\ SingleAnswered
  /\ reply.status = 200
  /\ analysed[1].content.type = "link"
  /\ analysed[1].content.id = "c1"
  /\ reply.response.result.isFlagged
  /\ reply.response.result.reasons = << "spam" >>

-----------------------------------------------------------------------------
(* C26 *)

\* C26: whenever personal_information is in reasons the returned
\* confidence is exactly 1.0, for every text length, number of matching
\* personal-information rules and context.
C26_PersonalInformationIsCertain ==
  Done /\ "personal_information" \in ReasonSet => result.confidence = Scale

\* one rule in a text of more than 1000 characters, no context signal
C26_Witness ==
  /\ Done
  /\ "personal_information" \in ReasonSet
  /\ MatchCount(Combined, "personal_information") = 1
  /\ StrLen(Combined) > 1000
  /\ ~ContextBoost
  /\ result.confidence = Scale

-----------------------------------------------------------------------------
(* C27 *)

\* the slur rule, the only rule of inappropriate_language and the first of
\* hate_speech
SlurRuleMatches == "hs_slurs" \in MatchedRules(Combined)

\* C27: inappropriate_language is in reasons exactly when the slur rule
\* matches; that rule is also a hate_speech rule, so reasons never contains
\* inappropriate_language without hate_speech, and a text matching the slur
\* rule has at least two reasons and receives the multiplicity bonus.
C27_SlurRuleGivesTwoReasons ==
  Done =>
    /\ "inappropriate_language" \in ReasonSet <=> SlurRuleMatches
    /\ "inappropriate_language" \in ReasonSet => "hate_speech" \in ReasonSet
    /\ Range(PATTERN_MAP["inappropriate_language"])
          \subseteq Range(PATTERN_MAP["hate_speech"])
    /\ SlurRuleMatches =>
          /\ Len(result.reasons) >= 2
          /\ result.confidence >= Min(ConfidenceSum + 10, Scale)

\* the bonus seen below the clamp: 0.5 + 0.1 for the two categories, 0.7 returned
C27_Witness ==
  /\ Done
  /\ SlurRuleMatches
  /\ result.reasons = << "hate_speech", "inappropriate_language" >>
  /\ ~ContextBoost
  /\ ConfidenceSum = 60
  /\ result.confidence = 70

-----------------------------------------------------------------------------
(* C28 *)

\* the signals a context carries
Signals(context) ==
  (IF context.previousFlags > 3 THEN {"previousFlags"} ELSE {})
    \cup (IF context.platform = "twitter" THEN {"twitter"} ELSE {})
    \cup (IF context.audience = "children" THEN {"children"} ELSE {})

\* C28: context is monotone: for fixed content the reasons are the same
\* under every context; platform and audience never change the severity;
\* a context with more signals (previousFlags > 3, platform twitter,
\* audience children) never gives a lower confidence or a lower severity
\* than the same content analysed with fewer.
C28_ContextIsMonotone ==
  Done =>
    \A a \in Contexts, b \in Contexts :
      /\ underContext[a].reasons = underContext[b].reasons
      /\ a.previousFlags = b.previousFlags =>
            underContext[a].severity = underContext[b].severity
      /\ Signals(a) \subseteq Signals(b) =>
            /\ underContext[a].confidence <= underContext[b].confidence
            /\ SeverityRank[underContext[a].severity] <= SeverityRank[underContext[b].severity]

\* previousFlags > 3 raises the severity of identical content
C28_Witness ==
  /\ Done
  /\ request.content.text = << "all_people" >>
  /\ \E a \in Contexts, b \in Contexts :
        /\ Signals(a) = {}
        /\ Signals(b) = {"previousFlags"}
        /\ underContext[a].severity = "high"
        /\ underContext[b].severity = "critical"

=============================================================================
